---- MODULE Spec2Model ----
(***************************************************************************)
(* ordinary-arg-parser: the scan of a token sequence by OrdinaryArgParser   *)
(* (src/src/errors.ts), one step per iteration of the loop of parse(),      *)
(* followed by applyDefaultValues() and applyTransforms().                  *)
(*                                                                         *)
(* A string is a sequence of one-character strings, so that slicing,        *)
(* indexOf, startsWith and the numeric pattern are computed character by    *)
(* character.  A stored value is a record: a scalar holds one atom          *)
(* (boolean, string or null), an array holds a sequence of atoms; xf lists  *)
(* the transforms that were applied to it.                                  *)
(***************************************************************************)
EXTENDS Integers, Sequences, FiniteSets, TLC

VARIABLES args, optionsConfig, configMap, aliasMap, result, i, pc, thrown,
          calls, role

vars == <<args, optionsConfig, configMap, aliasMap, result, i, pc, thrown,
          calls, role>>

\* The longest token sequence handed to the parser.
MaxArgs == 3

-----------------------------------------------------------------------------
(* Values *)

Str(s) == [t |-> "str", b |-> FALSE, s |-> s]

Bool(b) == [t |-> "bool", b |-> b, s |-> <<>>]

Null == [t |-> "null", b |-> FALSE, s |-> <<>>]

Scalar(a) == [arr |-> FALSE, items |-> <<a>>, xf |-> <<>>]

Array(items) == [arr |-> TRUE, items |-> items, xf |-> <<>>]

\* JavaScript truthiness of a stored value: arrays, true and non-empty
\* strings are truthy; false, "" and null are falsy.
Truthy(v) ==
  \/ v.arr
  \/ v.items[1].t = "bool" /\ v.items[1].b
  \/ v.items[1].t = "str" /\ v.items[1].s # <<>>

\* The key under which the positional arguments are kept.
PositionalKey == <<"_">>

-----------------------------------------------------------------------------
(* Option configuration *)

\* What Map.get returns for a key that is not in the map.
Undefined ==
  [name |-> <<>>, alias |-> <<>>, kind |-> "undefined",
   duplicateHandling |-> "undefined", hasDefault |-> FALSE,
   default |-> Scalar(Null), transform |-> "undefined"]

Flag(name, alias, dup) ==
  [name |-> name, alias |-> alias, kind |-> "flag",
   duplicateHandling |-> dup, hasDefault |-> FALSE,
   default |-> Scalar(Null), transform |-> "undefined"]

Value(name, alias, dup, default) ==
  [name |-> name, alias |-> alias, kind |-> "value",
   duplicateHandling |-> dup, hasDefault |-> TRUE,
   default |-> default, transform |-> "undefined"]

WithDefault(cfg, default) == [cfg EXCEPT !.hasDefault = TRUE, !.default = default]

WithTransform(cfg, f) == [cfg EXCEPT !.transform = f]

\* The last entry of the configuration with that name (Map.set: a later
\* entry replaces an earlier one with the same key).
LastNamed(cfgs, name) ==
  cfgs[CHOOSE k \in 1..Len(cfgs) :
         cfgs[k].name = name /\ \A m \in (k + 1)..Len(cfgs) : cfgs[m].name # name]

\* The last entry of the configuration with that alias.
LastAliased(cfgs, alias) ==
  cfgs[CHOOSE k \in 1..Len(cfgs) :
         cfgs[k].alias = alias /\ \A m \in (k + 1)..Len(cfgs) : cfgs[m].alias # alias]

\* buildConfigMaps: name -> entry and alias -> name; an empty alias is not
\* registered.
buildConfigMaps(cfgs) ==
  LET names == {cfgs[k].name : k \in 1..Len(cfgs)}
      aliases == {cfgs[k].alias : k \in 1..Len(cfgs)} \ {<<>>}
  IN [configMap |-> [n \in names |-> LastNamed(cfgs, n)],
      aliasMap |-> [a \in aliases |-> LastAliased(cfgs, a).name]]

getAliasVerboseName(alias) ==
  IF alias \in DOMAIN aliasMap THEN aliasMap[alias] ELSE <<>>

\* getOptionConfig: the alias map is consulted first; an empty (falsy) name
\* falls back to the option itself.
getOptionConfig(option) ==
  LET verbose == getAliasVerboseName(option)
      configKey == IF verbose # <<>> THEN verbose ELSE option
  IN IF configKey \in DOMAIN configMap THEN configMap[configKey] ELSE Undefined

-----------------------------------------------------------------------------
(* Token helpers *)

Digits == {"0", "1", "2", "3", "4", "5", "6", "7", "8", "9"}

AllDigits(s) == Len(s) > 0 /\ \A k \in 1..Len(s) : s[k] \in Digits

\* The pattern without the optional sign: /^\d+(\.\d+)?$/
isNumericRegex_Unsigned(str) ==
  \/ AllDigits(str)
  \/ \E k \in 1..Len(str) :
       /\ str[k] = "."
       /\ AllDigits(SubSeq(str, 1, k - 1))
       /\ AllDigits(SubSeq(str, k + 1, Len(str)))

\* /^-?\d+(\.\d+)?$/
isNumericRegex(str) ==
  LET body == IF Len(str) > 0 /\ str[1] = "-" THEN Tail(str) ELSE str
  IN \/ AllDigits(body)
     \/ \E k \in 1..Len(body) :
          /\ body[k] = "."
          /\ AllDigits(SubSeq(body, 1, k - 1))
          /\ AllDigits(SubSeq(body, k + 1, Len(body)))

\* findIndex of the first character that is not "-" (-1 when there is none),
\* and arg.slice(hyphenCount).
\* stripHyphens that strips every leading hyphen and reports a run of more
\* than two as the long form.
stripHyphens_AtMostTwo(arg) ==
  LET others == {k \in 1..Len(arg) : arg[k] # "-"}
      run == IF others = {} THEN Len(arg)
             ELSE (CHOOSE k \in others : \A m \in others : k <= m) - 1
  IN [hyphenCount |-> IF run > 2 THEN 2 ELSE run,
      content |-> SubSeq(arg, run + 1, Len(arg))]

stripHyphens(arg) ==
  LET others == {k \in 1..Len(arg) : arg[k] # "-"}
      hyphenCount == IF others = {} THEN -1
                     ELSE (CHOOSE k \in others : \A m \in others : k <= m) - 1
  IN [hyphenCount |-> hyphenCount,
      content |-> IF hyphenCount = -1 THEN SubSeq(arg, Len(arg), Len(arg))
                  ELSE SubSeq(arg, hyphenCount + 1, Len(arg))]

\* isOptionArg without the length and number tests.
isOptionArg_AnyHyphen(arg) == arg # <<>> /\ arg[1] = "-"

isOptionArg(arg) ==
  IF Len(arg) < 2 THEN FALSE
  ELSE arg[1] = "-" /\ ~isNumericRegex(arg)

\* Split at the first "="; hasInline is FALSE when inlineValue is undefined.
\* parseEqualsFormat that splits at the last "=" of the token.
parseEqualsFormat_LastEquals(arg) ==
  LET eqs == {k \in 1..Len(arg) : arg[k] = "="}
  IN IF eqs = {} THEN [rawOption |-> arg, hasInline |-> FALSE, inlineValue |-> <<>>]
     ELSE LET equalIndex == CHOOSE k \in eqs : \A m \in eqs : k >= m
          IN [rawOption |-> SubSeq(arg, 1, equalIndex - 1),
              hasInline |-> TRUE,
              inlineValue |-> SubSeq(arg, equalIndex + 1, Len(arg))]

parseEqualsFormat(arg) ==
  LET eqs == {k \in 1..Len(arg) : arg[k] = "="}
  IN IF eqs = {} THEN [rawOption |-> arg, hasInline |-> FALSE, inlineValue |-> <<>>]
     ELSE LET equalIndex == CHOOSE k \in eqs : \A m \in eqs : k <= m
          IN [rawOption |-> SubSeq(arg, 1, equalIndex - 1),
              hasInline |-> TRUE,
              inlineValue |-> SubSeq(arg, equalIndex + 1, Len(arg))]

\* No option name counts as a negation.
isNegativeOption_Never(option) == FALSE

isNegativeOption(option) ==
  Len(option) >= 3 /\ SubSeq(option, 1, 3) = <<"n", "o", "-">>

extractNegativeOption(option) == SubSeq(option, 4, Len(option))

\* Any following token counts as a value, option candidate or not.
isNextArgValue_AnyNext(as, currentIndex) == currentIndex < Len(as)

\* currentIndex is the 1-based position of the token being scanned.
isNextArgValue(as, currentIndex) ==
  IF currentIndex >= Len(as) THEN FALSE
  ELSE ~isOptionArg(as[currentIndex + 1])

Terminator == <<"-", "-">>

-----------------------------------------------------------------------------
(* The parser's result and its updates *)

hasOwn(res, key) == key \in DOMAIN res

Put(res, key, v) ==
  [k \in DOMAIN res \cup {key} |-> IF k = key THEN v ELSE res[k]]

\* accumulate wraps the first value in a one-element array.
storeOptionValue_WrapFirst(res, option, value, duplicateHandling) ==
  IF hasOwn(res, option) /\ res[option] # Scalar(Null)
  THEN LET currentValue == res[option]
       IN IF duplicateHandling = "first-wins" THEN res
          ELSE IF duplicateHandling \in {"last-wins", "undefined"}
                  /\ Truthy(currentValue)
            THEN Put(res, option, Scalar(value))
          ELSE IF currentValue.arr
            THEN Put(res, option, Array(Append(currentValue.items, value)))
          ELSE Put(res, option, Array(<<currentValue.items[1], value>>))
  ELSE IF duplicateHandling = "accumulate"
    THEN Put(res, option, Array(<<value>>))
  ELSE Put(res, option, Scalar(value))

\* The first-wins branch is missing: a later value overwrites.
storeOptionValue_NoFirstWins(res, option, value, duplicateHandling) ==
  IF hasOwn(res, option) /\ res[option] # Scalar(Null)
  THEN LET currentValue == res[option]
       IN IF duplicateHandling # "accumulate" /\ Truthy(currentValue)
            THEN Put(res, option, Scalar(value))
          ELSE IF currentValue.arr
            THEN Put(res, option, Array(Append(currentValue.items, value)))
          ELSE Put(res, option, Array(<<currentValue.items[1], value>>))
  ELSE Put(res, option, Scalar(value))

\* storeOptionValue(option, value, duplicateHandling = "last-wins")
storeOptionValue(res, option, value, duplicateHandling) ==
  LET dh == IF duplicateHandling = "undefined" THEN "last-wins"
            ELSE duplicateHandling
  IN IF hasOwn(res, option) /\ res[option] # Scalar(Null)
     THEN LET currentValue == res[option]
          IN IF dh = "first-wins" THEN res
             ELSE IF dh = "last-wins" /\ Truthy(currentValue)
               THEN Put(res, option, Scalar(value))
             ELSE IF currentValue.arr
               THEN Put(res, option, Array(Append(currentValue.items, value)))
             ELSE Put(res, option, Array(<<currentValue.items[1], value>>))
     ELSE Put(res, option, Scalar(value))

\* The value is stored under the alias when the option has one.
Store_UnderAlias(st, config, value, from) ==
  LET key == IF config.alias # <<>> THEN config.alias ELSE config.name
  IN [st EXCEPT
        !.result = storeOptionValue(st.result, key, value,
                                    config.duplicateHandling),
        !.calls = Append(st.calls, [option |-> key, value |-> value,
                                    at |-> st.i, from |-> from])]

\* One call of storeOptionValue made while scanning: st carries the result,
\* the scan index and the record of the calls made so far.  A call is
\* recorded with the position of the token being scanned (at) and, when the
\* value is args[++i], the position that value was read from (from, else 0).
Store(st, config, value, from) ==
  [st EXCEPT
     !.result = storeOptionValue(st.result, config.name, value,
                                 config.duplicateHandling),
     !.calls = Append(st.calls, [option |-> config.name, value |-> value,
                                 at |-> st.i, from |-> from])]

\* The next token is stored as the value but the index is not advanced
\* (args[i + 1] instead of args[++i]).
parseLongOption_NoAdvance(st, content, as) ==
  LET eq == parseEqualsFormat(content)
  IN IF isNegativeOption(eq.rawOption)
     THEN LET config == getOptionConfig(extractNegativeOption(eq.rawOption))
          IN IF config.kind # "flag" THEN st
             ELSE Store(st, config, Bool(FALSE), 0)
     ELSE LET config == getOptionConfig(eq.rawOption)
          IN IF config.kind = "undefined" THEN st
             ELSE IF config.kind = "flag"
               THEN IF eq.hasInline /\ eq.inlineValue = <<"f", "a", "l", "s", "e">>
                    THEN Store(st, config, Bool(FALSE), 0)
                    ELSE Store(st, config, Bool(TRUE), 0)
             ELSE IF eq.hasInline
               THEN Store(st, config, Str(eq.inlineValue), 0)
             ELSE IF isNextArgValue(as, st.i)
               THEN Store(st, config, Str(as[st.i + 1]), st.i + 1)
             ELSE Store(st, config, Null, 0)

\* parseLongOption(content, args, i): returns the updated index with the
\* updated result.
parseLongOption(st, content, as) ==
  LET eq == parseEqualsFormat(content)
  IN IF isNegativeOption(eq.rawOption)
     THEN LET config == getOptionConfig(extractNegativeOption(eq.rawOption))
          IN IF config.kind # "flag" THEN st
             ELSE Store(st, config, Bool(FALSE), 0)
     ELSE LET config == getOptionConfig(eq.rawOption)
          IN IF config.kind = "undefined" THEN st
             ELSE IF config.kind = "flag"
               THEN IF eq.hasInline /\ eq.inlineValue = <<"f", "a", "l", "s", "e">>
                    THEN Store(st, config, Bool(FALSE), 0)
                    ELSE Store(st, config, Bool(TRUE), 0)
             ELSE IF eq.hasInline
               THEN Store(st, config, Str(eq.inlineValue), 0)
             ELSE IF isNextArgValue(as, st.i)
               THEN [Store(st, config, Str(as[st.i + 1]), st.i + 1) EXCEPT !.i = st.i + 1]
             ELSE Store(st, config, Null, 0)

\* The body of the loop of parseShortOption from cluster position j on.
\* The cluster loop with a break where the code has a continue: an unknown
\* character ends the processing of the cluster.
RECURSIVE ShortLoop_StopAtUnknown(_, _, _, _, _)
ShortLoop_StopAtUnknown(st, optionsToProcess, eq, as, j) ==
  IF j > Len(optionsToProcess) THEN st
  ELSE LET config == getOptionConfig(<<optionsToProcess[j]>>)
       IN IF config.kind = "undefined" THEN st
          ELSE IF config.kind = "flag"
            THEN IF eq.hasInline /\ eq.inlineValue = <<"f", "a", "l", "s", "e">>
                 THEN ShortLoop_StopAtUnknown(Store(st, config, Bool(FALSE), 0),
                                              optionsToProcess, eq, as, j + 1)
                 ELSE ShortLoop_StopAtUnknown(Store(st, config, Bool(TRUE), 0),
                                              optionsToProcess, eq, as, j + 1)
          ELSE IF j = Len(optionsToProcess)
            THEN IF eq.hasInline
                   THEN Store(st, config, Str(eq.inlineValue), 0)
                 ELSE IF isNextArgValue(as, st.i)
                   THEN [Store(st, config, Str(as[st.i + 1]), st.i + 1) EXCEPT !.i = st.i + 1]
                 ELSE Store(st, config, Null, 0)
          ELSE Store(st, config,
                     Str(SubSeq(optionsToProcess, j + 1, Len(optionsToProcess))), 0)

RECURSIVE ShortLoop(_, _, _, _, _)
ShortLoop(st, optionsToProcess, eq, as, j) ==
  IF j > Len(optionsToProcess) THEN st
  ELSE LET config == getOptionConfig(<<optionsToProcess[j]>>)
       IN IF config.kind = "undefined"
            THEN ShortLoop(st, optionsToProcess, eq, as, j + 1)
          ELSE IF config.kind = "flag"
            THEN IF eq.hasInline /\ eq.inlineValue = <<"f", "a", "l", "s", "e">>
                 THEN ShortLoop(Store(st, config, Bool(FALSE), 0),
                                optionsToProcess, eq, as, j + 1)
                 ELSE ShortLoop(Store(st, config, Bool(TRUE), 0),
                                optionsToProcess, eq, as, j + 1)
          ELSE IF j = Len(optionsToProcess)
            THEN IF eq.hasInline
                   THEN Store(st, config, Str(eq.inlineValue), 0)
                 ELSE IF isNextArgValue(as, st.i)
                   THEN [Store(st, config, Str(as[st.i + 1]), st.i + 1) EXCEPT !.i = st.i + 1]
                 ELSE Store(st, config, Null, 0)
          ELSE Store(st, config,
                     Str(SubSeq(optionsToProcess, j + 1, Len(optionsToProcess))), 0)

\* parseShortOption that looks only at the last character of the cluster.
parseShortOption_LastOnly(st, content, as) ==
  LET eq == parseEqualsFormat(content)
  IN ShortLoop(st, eq.rawOption, eq, as, Len(eq.rawOption))

\* parseShortOption that expands the whole token, inline value included,
\* into cluster characters.
parseShortOption_ExpandsInline(st, content, as) ==
  ShortLoop(st, content, parseEqualsFormat(content), as, 1)

\* parseShortOption(content, args, i); expandShortCluster splits the cluster
\* into its characters, which is what a string is here.
parseShortOption(st, content, as) ==
  LET eq == parseEqualsFormat(content)
  IN ShortLoop(st, eq.rawOption, eq, as, 1)

\* The default replaces a stored null and is not stored for an absent key.
applyDefaultValues_NullOnly(res) ==
  [k \in DOMAIN res |->
     IF k \in DOMAIN configMap /\ configMap[k].hasDefault /\ res[k] = Scalar(Null)
       THEN configMap[k].default
     ELSE res[k]]

\* applyDefaultValues: a declared default is stored for every name that is
\* not an own key of the result.
applyDefaultValues(res) ==
  [k \in DOMAIN res \cup {n \in DOMAIN configMap : configMap[n].hasDefault} |->
     IF hasOwn(res, k) THEN res[k] ELSE configMap[k].default]

Transformed(f, v) == [v EXCEPT !.xf = Append(@, f)]

\* applyTransforms: the transform is looked up through getOptionConfig(key).
applyTransforms(res) ==
  [k \in DOMAIN res |->
     LET transform == getOptionConfig(k).transform
     IN IF transform # "undefined" THEN Transformed(transform, res[k])
        ELSE res[k]]

-----------------------------------------------------------------------------
(* Configurations and the token sequences they are run on *)

\* Flags and value options under each duplicate policy, with and without
\* alias, default and transform (after the configurations of the tests).
MainConfig ==
  << Flag(<<"v", "b">>, <<"v">>, "undefined"),
     WithDefault(Flag(<<"f", "o">>, <<"f">>, "accumulate"), Scalar(Bool(FALSE))),
     Value(<<"o", "u", "t">>, <<"o">>, "undefined", Scalar(Str(<<"d">>))),
     WithTransform(Value(<<"c", "n", "t">>, <<"n">>, "first-wins",
                         Scalar(Str(<<"0">>))), "parseInt"),
     Value(<<"t", "g">>, <<"t">>, "accumulate", Array(<<>>)) >>

\* Tokens for the options with the default duplicate policy.
LastWinsTokens ==
  {
    <<"-", "-", "v", "b">>,                        \* --vb  long flag
    <<"-", "-", "n", "o", "-", "v", "b">>,         \* --no-vb  negated flag
    <<"-", "-", "v", "b", "=", "f", "a", "l", "s", "e">>, \* --vb=false  flag, inline false
    <<"-", "-", "o", "u", "t">>,                   \* --out  value option, no inline value
    <<"-", "-", "o", "u", "t", "=">>,              \* --out=  empty inline value
    <<"-", "-", "o", "u", "t", "=", "b">>,         \* --out=b  inline value
    <<"-", "v", "o">>,                             \* -vo  cluster ending in a value option
    <<"-", "-">>,                                  \* --  terminator
    <<"-", "5">>,                                  \* -5  negative number
    <<"x">>                                        \* x  plain word
  }

\* Tokens for the accumulating and the first-wins options.
DuplicateTokens ==
  {
    <<"-", "-", "f", "o">>,                        \* --fo  accumulating flag
    <<"-", "-", "n", "o", "-", "f", "o">>,         \* --no-fo  accumulating flag, negated
    <<"-", "-", "t", "g", "=", "a">>,              \* --tg=a  accumulating value option
    <<"-", "t", "b">>,                             \* -tb  attached value
    <<"-", "t">>,                                  \* -t  short, value in the next token
    <<"-", "-", "c", "n", "t", "=", "5">>,         \* --cnt=5  first-wins value option
    <<"-", "-", "c", "n", "t">>,                   \* --cnt  first-wins, value in the next token
    <<"-", "-">>,                                  \* --  terminator
    <<"-", "5">>,                                  \* -5  negative number
    <<"x">>                                        \* x  plain word
  }

\* Short clusters over the flags v, f and the value options o, t.
ClusterTokens ==
  {
    <<"-", "v", "f", "o">>,                        \* -vfo  two flags, then a value option
    <<"-", "v", "f", "=", "f", "a", "l", "s", "e">>, \* -vf=false  two flags, inline false
    <<"-", "v", "z", "o">>,                        \* -vzo  unknown character inside
    <<"-", "o", "v", "f", "=", "x">>,              \* -ovf=x  value option first, inline value
    <<"-", "v", "o", "=", "b">>,                   \* -vo=b  value option last, inline value
    <<"-", "-">>,                                  \* --  terminator
    <<"-", "5">>,                                  \* -5  negative number
    <<"x">>                                        \* x  plain word
  }

\* Long options with every shape of inline value, and every shape of token
\* that can follow them.
LongTokens ==
  {
    <<"-", "-", "v", "b", "=">>,                   \* --vb=  flag, empty inline value
    <<"-", "-", "v", "b", "=", "t", "r", "u", "e">>, \* --vb=true  flag, inline true
    <<"-", "-", "n", "o", "-", "v", "b", "=", "t", "r", "u", "e">>, \* --no-vb=true  negated, inline true
    <<"-", "-", "o", "u", "t", "=", "a", "=", "b">>, \* --out=a=b  inline value with =
    <<"-", "-", "o", "u", "t">>,                   \* --out  value in the next token
    <<"-", "-">>,                                  \* --  terminator
    <<"-">>,                                       \* -  bare hyphen
    <<>>,                                          \* (empty)  empty string
    <<"-", "5">>,                                  \* -5  negative number
    <<"x">>                                        \* x  plain word
  }

\* Tokens with three hyphens or more, before registered names and alone.
HyphenTokens ==
  {
    <<"-", "-", "-", "v", "b">>,                   \* ---vb  three hyphens, name of a flag
    <<"-", "-", "-", "o", "u", "t">>,              \* ---out  three hyphens, name of a value option
    <<"-", "-", "-">>,                             \* ---  hyphens only
    <<"-", "-", "-", "-">>,                        \* ----  four hyphens
    <<"-", "-", "o", "u", "t">>,                   \* --out  value in the next token
    <<"-", "5">>,                                  \* -5  negative number
    <<"x">>                                        \* x  plain word
  }

\* The canonical name of the first option is the alias of the second.
AliasConfig ==
  << WithTransform(WithDefault(Flag(<<"m">>, <<>>, "undefined"),
                               Scalar(Bool(TRUE))), "negate"),
     Value(<<"m", "s">>, <<"m">>, "undefined", Scalar(Str(<<>>))) >>

\* As AliasConfig, with the transform on the option that owns the alias.
AliasTransformConfig ==
  << WithDefault(Flag(<<"m">>, <<>>, "undefined"), Scalar(Bool(TRUE))),
     WithTransform(Value(<<"m", "s">>, <<"m">>, "undefined", Scalar(Str(<<>>))),
                   "quote") >>

AliasTokens ==
  {
    <<"-", "-", "m">>,                             \* --m  long form of an alias
    <<"-", "m">>,                                  \* -m  short alias
    <<"-", "-", "m", "s", "=", "a">>,              \* --ms=a  canonical name
    <<"-", "-", "n", "o", "-", "m">>,              \* --no-m  negation through the alias
    <<"x">>,                                       \* x  plain word
    <<"-", "-">>                                   \* --  terminator
  }

\* No declared option.
EmptyConfig == << >>

EmptyTokens ==
  {
    <<"-", "-", "z", "z">>,                        \* --zz  unknown long option
    <<"-", "z">>,                                  \* -z  unknown short option
    <<"-", "-", "-", "x">>,                        \* ---x  three hyphens
    <<"x">>,                                       \* x  plain word
    <<"-", "5">>,                                  \* -5  negative number
    <<"-", "2", ".", "5">>,                        \* -2.5  negative decimal number
    <<"-", "-">>,                                  \* --  terminator
    <<"-">>,                                       \* -  bare hyphen
    <<>>                                           \* (empty)  empty string
  }

Cases ==
  { [config |-> MainConfig, tokens |-> LastWinsTokens],
    [config |-> MainConfig, tokens |-> DuplicateTokens],
    [config |-> MainConfig, tokens |-> ClusterTokens],
    [config |-> MainConfig, tokens |-> LongTokens],
    [config |-> MainConfig, tokens |-> HyphenTokens],
    [config |-> AliasConfig, tokens |-> AliasTokens],
    [config |-> AliasTransformConfig, tokens |-> AliasTokens],
    [config |-> EmptyConfig, tokens |-> EmptyTokens] }

-----------------------------------------------------------------------------
(* The parse *)

NoError == [code |-> "none", argument |-> <<>>, rawArgs |-> <<>>]

TypeError == [code |-> "TypeError", argument |-> <<>>, rawArgs |-> <<>>]

\* ordinaryArgParser(args, optionsConfig) up to the construction of the
\* parser: the maps are built and the result is { _: [] }.
Init ==
  \E c \in Cases : \E n \in 0..MaxArgs : \E a \in [1..n -> c.tokens] :
    /\ args = a
    /\ optionsConfig = c.config
    /\ configMap = buildConfigMaps(c.config).configMap
    /\ aliasMap = buildConfigMaps(c.config).aliasMap
    /\ result = (PositionalKey :> Array(<<>>))
    /\ i = 1
    /\ pc = "scan"
    /\ thrown = NoError
    /\ calls = <<>>
    /\ role = [k \in 1..n |-> "unscanned"]

Scanning == pc = "scan" /\ i <= Len(args)

\* this.result._.push(...values): a TypeError when _ no longer holds an
\* array.
CanPush(res) == res[PositionalKey].arr

storePositionalValues(res, values) ==
  [res EXCEPT ![PositionalKey] =
     Array(res[PositionalKey].items \o [k \in 1..Len(values) |-> Str(values[k])])]

\* A scan that takes the tokens off the caller's array as it reads them.
Frame_ConsumesArgs ==
  /\ args' = SubSeq(args, 2, Len(args))
  /\ UNCHANGED <<optionsConfig, configMap, aliasMap>>

Frame == UNCHANGED <<args, optionsConfig, configMap, aliasMap>>

\* arg === "--": the rest of the tokens is pushed and the loop ends.
ScanTerminator ==
  /\ Scanning
  /\ args[i] = Terminator
  /\ IF CanPush(result)
     THEN /\ result' = storePositionalValues(result, SubSeq(args, i + 1, Len(args)))
          /\ i' = Len(args) + 1
          /\ role' = [k \in 1..Len(args) |->
                        IF k < i THEN role[k]
                        ELSE IF k = i THEN "terminator" ELSE "rest"]
          /\ UNCHANGED <<pc, thrown>>
     ELSE /\ thrown' = TypeError
          /\ pc' = "done"
          /\ UNCHANGED <<result, i, role>>
  /\ UNCHANGED calls
  /\ Frame

\* The roles of the token at i and of the token consumed after it, if any.
Scanned(as, kind, newIndex) ==
  [k \in 1..Len(as) |->
     IF k = i THEN kind
     ELSE IF k > i /\ k <= newIndex THEN "value"
     ELSE role[k]]

\* hyphenCount === 2
ScanLongOption ==
  /\ Scanning
  /\ args[i] # Terminator
  /\ isOptionArg(args[i])
  /\ stripHyphens(args[i]).hyphenCount = 2
  /\ LET st == parseLongOption([result |-> result, calls |-> calls, i |-> i],
                               stripHyphens(args[i]).content, args)
     IN /\ result' = st.result
        /\ calls' = st.calls
        /\ i' = st.i + 1
        /\ role' = Scanned(args, "long", st.i)
  /\ UNCHANGED <<pc, thrown>>
  /\ Frame

\* hyphenCount === 1
ScanShortOption ==
  /\ Scanning
  /\ args[i] # Terminator
  /\ isOptionArg(args[i])
  /\ stripHyphens(args[i]).hyphenCount = 1
  /\ LET st == parseShortOption([result |-> result, calls |-> calls, i |-> i],
                                stripHyphens(args[i]).content, args)
     IN /\ result' = st.result
        /\ calls' = st.calls
        /\ i' = st.i + 1
        /\ role' = Scanned(args, "short", st.i)
  /\ UNCHANGED <<pc, thrown>>
  /\ Frame

\* An option candidate whose hyphenCount is neither 1 nor 2: no branch of
\* the loop body applies.
ScanOtherHyphens ==
  /\ Scanning
  /\ args[i] # Terminator
  /\ isOptionArg(args[i])
  /\ stripHyphens(args[i]).hyphenCount \notin {1, 2}
  /\ i' = i + 1
  /\ role' = Scanned(args, "skipped", i)
  /\ UNCHANGED <<result, calls, pc, thrown>>
  /\ Frame

\* Positional argument
ScanPositional ==
  /\ Scanning
  /\ args[i] # Terminator
  /\ ~isOptionArg(args[i])
  /\ IF CanPush(result)
     THEN /\ result' = storePositionalValues(result, <<args[i]>>)
          /\ i' = i + 1
          /\ role' = Scanned(args, "positional", i)
          /\ UNCHANGED <<pc, thrown>>
     ELSE /\ thrown' = TypeError
          /\ pc' = "done"
          /\ UNCHANGED <<result, i, role>>
  /\ UNCHANGED calls
  /\ Frame

\* The loop has ended: this.applyDefaultValues()
ApplyDefaultValues ==
  /\ pc = "scan"
  /\ i > Len(args)
  /\ result' = applyDefaultValues(result)
  /\ pc' = "transforms"
  /\ UNCHANGED <<i, thrown, calls, role>>
  /\ Frame

\* this.applyTransforms(); return this.result
ApplyTransforms ==
  /\ pc = "transforms"
  /\ result' = applyTransforms(result)
  /\ pc' = "done"
  /\ UNCHANGED <<i, thrown, calls, role>>
  /\ Frame

Next ==
  \/ ScanTerminator
  \/ ScanLongOption
  \/ ScanShortOption
  \/ ScanOtherHyphens
  \/ ScanPositional
  \/ ApplyDefaultValues
  \/ ApplyTransforms

Spec == Init /\ [][Next]_vars

-----------------------------------------------------------------------------
(* The parse of configurations that declare an option named _ *)

\* A value option whose canonical name is the positional key, under the
\* default duplicate policy and under accumulate.
ReservedConfig ==
  << Value(PositionalKey, <<"u">>, "undefined", Scalar(Str(<<"d">>))) >>

ReservedAccumulateConfig ==
  << Value(PositionalKey, <<"u">>, "accumulate", Array(<<>>)) >>

ReservedTokens ==
  {
    <<"-", "-", "_", "=", "a">>,                   \* --_=a  inline value
    <<"-", "u", "b">>,                             \* -ub  alias, attached value
    <<"-", "-", "-", "x">>,                        \* ---x  three hyphens
    <<"-", "-">>,                                  \* --  terminator
    <<"-", "5">>,                                  \* -5  negative number
    <<"x">>                                        \* x  plain word
  }

ReservedCases ==
  { [config |-> ReservedConfig, tokens |-> ReservedTokens],
    [config |-> ReservedAccumulateConfig, tokens |-> ReservedTokens] }

InitReserved ==
  \E c \in ReservedCases : \E n \in 0..MaxArgs : \E a \in [1..n -> c.tokens] :
    /\ args = a
    /\ optionsConfig = c.config
    /\ configMap = buildConfigMaps(c.config).configMap
    /\ aliasMap = buildConfigMaps(c.config).aliasMap
    /\ result = (PositionalKey :> Array(<<>>))
    /\ i = 1
    /\ pc = "scan"
    /\ thrown = NoError
    /\ calls = <<>>
    /\ role = [k \in 1..n |-> "unscanned"]

SpecReserved == InitReserved /\ [][Next]_vars

-----------------------------------------------------------------------------
(* Vocabulary of the properties *)

Positions == 1..Len(args)

Names == {optionsConfig[k].name : k \in 1..Len(optionsConfig)}

Aliases == {optionsConfig[k].alias : k \in 1..Len(optionsConfig)} \ {<<>>}

Policy(name) ==
  IF configMap[name].duplicateHandling = "undefined" THEN "last-wins"
  ELSE configMap[name].duplicateHandling

CallsFor(name) == SelectSeq(calls, LAMBDA c : c.option = name)

ValuesFor(name) == [k \in 1..Len(CallsFor(name)) |-> CallsFor(name)[k].value]

AllCarryValue(vals) == \A k \in 1..Len(vals) : vals[k] # Null

ScannedAsOption(k) == role[k] \in {"long", "short"}

Positional == result[PositionalKey]

Returned == pc = "done" /\ thrown = NoError

\* Every option met so far was given a value.
NoMissingValue == \A c \in 1..Len(calls) : calls[c].value # Null

\* The tokens at the positions whose role is in roles, in input order.
RECURSIVE TokensWithRole(_, _)
TokensWithRole(roles, k) ==
  IF k = 0 THEN <<>>
  ELSE IF role[k] \in roles
    THEN Append(TokensWithRole(roles, k - 1), Str(args[k]))
  ELSE TokensWithRole(roles, k - 1)

\* The cluster characters before position j are all flags or unknown, so the
\* short-option resolver gets as far as position j.
ClusterReaches(cluster, j) ==
  \A m \in 1..(j - 1) : getOptionConfig(<<cluster[m]>>).kind # "value"

\* The token is an option candidate that resolves to no registered option:
\* --X or --X=v with X unknown, --no-X with X unknown or not a flag, or a
\* cluster whose last character is reached and unknown.
ResolvesToNothing(tok) ==
  LET sh == stripHyphens(tok)
      raw == parseEqualsFormat(sh.content).rawOption
  IN \/ /\ sh.hyphenCount = 2
        /\ IF isNegativeOption(raw)
           THEN getOptionConfig(extractNegativeOption(raw)).kind # "flag"
           ELSE getOptionConfig(raw).kind = "undefined"
     \/ /\ sh.hyphenCount = 1
        /\ Len(raw) > 0
        /\ ClusterReaches(raw, Len(raw))
        /\ getOptionConfig(<<raw[Len(raw)]>>).kind = "undefined"

\* The value-kind option the token names without giving it an inline value
\* (a long option, or the last character of a cluster), else Undefined.
ValueTarget(tok) ==
  LET sh == stripHyphens(tok)
      eq == parseEqualsFormat(sh.content)
      raw == eq.rawOption
      config == IF sh.hyphenCount = 2 /\ ~isNegativeOption(raw)
                  THEN getOptionConfig(raw)
                ELSE IF sh.hyphenCount = 1 /\ Len(raw) > 0
                        /\ ClusterReaches(raw, Len(raw))
                  THEN getOptionConfig(<<raw[Len(raw)]>>)
                ELSE Undefined
  IN IF ~eq.hasInline /\ config.kind = "value" THEN config ELSE Undefined

\* The numeric pattern: an optional leading "-", then digits with at most
\* one "." that has a digit on each side, and nothing else.
NumericPattern(tok) ==
  LET unsigned == IF tok # <<>> /\ Head(tok) = "-" THEN Tail(tok) ELSE tok
      dots == {k \in 1..Len(unsigned) : unsigned[k] = "."}
  IN /\ unsigned # <<>>
     /\ \A k \in 1..Len(unsigned) : unsigned[k] \in Digits \cup {"."}
     /\ Cardinality(dots) <= 1
     /\ unsigned[1] # "."
     /\ unsigned[Len(unsigned)] # "."

\* No token follows position k that could be taken as a value.
NoEligibleValueAfter(k) == k = Len(args) \/ isOptionArg(args[k + 1])

-----------------------------------------------------------------------------
(* Properties *)

\* C1: an option-candidate token that resolves to no registered name or alias
\* makes the parse fail with code UNKNOWN_ARGUMENT and the token as argument.
C1_UnknownArgumentRaises ==
  \A k \in Positions :
    ScannedAsOption(k) /\ ResolvesToNothing(args[k]) =>
      /\ thrown.code = "UNKNOWN_ARGUMENT"
      /\ thrown.argument = args[k]

\* C2: a value-kind option met without inline value, with no eligible token
\* after it, makes the parse fail with code MISSING_VALUE, the canonical name
\* as argument and the whole input as rawArgs.
C2_MissingValueRaises ==
  \A k \in Positions :
    /\ ScannedAsOption(k)
    /\ ValueTarget(args[k]).kind = "value"
    /\ NoEligibleValueAfter(k)
    => /\ thrown.code = "MISSING_VALUE"
       /\ thrown.argument = ValueTarget(args[k]).name
       /\ thrown.rawArgs = args

\* C3: under last-wins (declared or by default) the value stored before the
\* transform pass is the value of the last occurrence, never a sequence,
\* whatever the earlier occurrences stored (true, false, a string, "").
C3_LastWinsStoresLast ==
  \A name \in DOMAIN configMap :
    /\ pc = "transforms"
    /\ Policy(name) = "last-wins"
    /\ ValuesFor(name) # <<>>
    /\ AllCarryValue(ValuesFor(name))
    => result[name] = Scalar(ValuesFor(name)[Len(ValuesFor(name))])

\* C4: under accumulate the value stored before the transform pass is the
\* sequence of all the values in the order they were set when there are
\* several, and the raw value when there is one, for flags and value options.
C4_AccumulateStoresAll ==
  \A name \in DOMAIN configMap :
    /\ pc \in {"scan", "transforms"}
    /\ Policy(name) = "accumulate"
    /\ ValuesFor(name) # <<>>
    /\ AllCarryValue(ValuesFor(name))
    => result[name] = IF Len(ValuesFor(name)) = 1
                        THEN Scalar(ValuesFor(name)[1])
                      ELSE Array(ValuesFor(name))

\* A flag accumulated true then false, and a value option set once.
C4_Witness ==
  /\ pc = "transforms"
  /\ NoMissingValue
  /\ \E flag \in DOMAIN configMap :
       /\ configMap[flag].kind = "flag"
       /\ Policy(flag) = "accumulate"
       /\ ValuesFor(flag) = <<Bool(TRUE), Bool(FALSE)>>
       /\ result[flag] = Array(<<Bool(TRUE), Bool(FALSE)>>)
  /\ \E opt \in DOMAIN configMap :
       /\ configMap[opt].kind = "value"
       /\ Policy(opt) = "accumulate"
       /\ Len(ValuesFor(opt)) = 1
       /\ result[opt] = Scalar(ValuesFor(opt)[1])

\* C5: under first-wins the value stored before the transform pass is the
\* first one; a later occurrence whose value is the next token still
\* consumes that token, which is not appended to the positional arguments.
C5_FirstWinsStoresFirst ==
  /\ \A name \in DOMAIN configMap :
       /\ pc \in {"scan", "transforms"}
       /\ Policy(name) = "first-wins"
       /\ ValuesFor(name) # <<>>
       /\ AllCarryValue(ValuesFor(name))
       => result[name] = Scalar(ValuesFor(name)[1])
  /\ \A k \in Positions :
       /\ ScannedAsOption(k)
       /\ ValueTarget(args[k]).kind = "value"
       /\ Policy(ValueTarget(args[k]).name) = "first-wins"
       /\ ~NoEligibleValueAfter(k)
       => /\ role[k + 1] = "value"
          /\ Positional.items = TokensWithRole({"positional", "rest"}, Len(args))

\* The option is set inline and then again with the next token as value.
C5_Witness ==
  /\ pc = "transforms"
  /\ \E name \in DOMAIN configMap :
       /\ Policy(name) = "first-wins"
       /\ Len(CallsFor(name)) = 2
       /\ CallsFor(name)[2].from = Len(args)
       /\ CallsFor(name)[1].value # CallsFor(name)[2].value
       /\ result[name] = Scalar(CallsFor(name)[1].value)
  /\ Positional.items = <<>>

C7_NumbersAreNeverOptions ==
  \A k \in Positions :
    NumericPattern(args[k]) /\ role[k] # "unscanned" =>
      /\ role[k] \in {"positional", "rest", "value"}
      /\ role[k] = "value" =>
           /\ k > 1
           /\ ScannedAsOption(k - 1)
           /\ ValueTarget(args[k - 1]).kind = "value"
           /\ \E c \in 1..Len(calls) :
                /\ calls[c].at = k - 1
                /\ calls[c].from = k
                /\ calls[c].option = ValueTarget(args[k - 1]).name
                /\ calls[c].value = Str(args[k])
      /\ Positional.items = TokensWithRole({"positional", "rest"}, Len(args))
      /\ \A c \in 1..Len(calls) : calls[c].at # k
      /\ thrown = NoError

\* A negative number is taken as the value of an option and another one is
\* positional.
C7_Witness ==
  /\ pc = "done"
  /\ \E k \in Positions :
       /\ args[k] = <<"-", "5">>
       /\ role[k] = "value"
  /\ \E k \in Positions :
       /\ args[k] = <<"-", "5">>
       /\ role[k] = "positional"

\* C8: after a parse that returns, every key of the result other than "_" is
\* the canonical name of a registered option; each value that was stored,
\* through the name or through the alias, is under the canonical name.
C8_KeysAreCanonicalNames ==
  Returned =>
    /\ \A key \in DOMAIN result \ {PositionalKey} : key \in Names
    /\ \A c \in 1..Len(calls) :
         calls[c].option \in Names /\ hasOwn(result, calls[c].option)
    /\ \A k \in Positions :
         LET raw == stripHyphens(args[k]).content
         IN role[k] = "short" /\ Len(raw) = 1 /\ raw \in DOMAIN aliasMap =>
              \E c \in 1..Len(calls) :
                calls[c].at = k /\ calls[c].option = aliasMap[raw]

\* An option is set through its one-character alias.
C8_Witness ==
  /\ Returned
  /\ NoMissingValue
  /\ \E k \in Positions :
       /\ role[k] = "short"
       /\ stripHyphens(args[k]).content \in Aliases \ Names
       /\ \E c \in 1..Len(calls) :
            calls[c].at = k /\ hasOwn(result, calls[c].option)

\* The tokens of as at the positions in S, in order.
RECURSIVE Restrict(_, _, _)
Restrict(as, S, k) ==
  IF k = 0 THEN <<>>
  ELSE IF k \in S THEN Append(Restrict(as, S, k - 1), Str(as[k]))
  ELSE Restrict(as, S, k - 1)

C11_TransformAppliedOnce ==
  [][pc = "transforms" /\ pc' = "done" =>
       \A key \in DOMAIN result :
         key \in DOMAIN configMap /\ configMap[key].transform # "undefined" =>
           result'[key] = Transformed(configMap[key].transform, result[key])]_vars

\* A token the scan treats as an option or as the terminator: at least two
\* characters, a leading hyphen, and not a number.
OptionCandidate(tok) == Len(tok) >= 2 /\ tok[1] = "-" /\ ~NumericPattern(tok)

\* The whole input as positional arguments.
AllTokens == [k \in Positions |-> Str(args[k])]

\* C12 as stated: with no declared option and no -- token, the positional
\* arguments are the whole input and no option is stored.
C12_EmptyConfigAllPositional ==
  (/\ Returned
   /\ optionsConfig = EmptyConfig
   /\ \A k \in Positions : args[k] # Terminator) =>
    /\ Positional = Array(AllTokens)
    /\ DOMAIN result = {PositionalKey}

\* C12: with no declared option and an input without option candidate, the
\* positional arguments are the whole input and no option is stored.
C12_EmptyConfigPlainTokensPositional ==
  (/\ Returned
   /\ optionsConfig = EmptyConfig
   /\ \A k \in Positions : ~OptionCandidate(args[k])) =>
    /\ Positional = Array(AllTokens)
    /\ DOMAIN result = {PositionalKey}

\* Three tokens that begin with a hyphen or are empty, all positional.
C12_Witness ==
  /\ Returned
  /\ optionsConfig = EmptyConfig
  /\ args = << <<"-", "5">>, <<"-">>, <<>> >>
  /\ Positional = Array(AllTokens)

\* The store operations made while the token at position k was scanned.
CallsAt(k) == SelectSeq(calls, LAMBDA c : c.at = k)

\* The characters of the token after its first hyphen.
Cluster(tok) == Tail(tok)

\* The token at position k was scanned as a short cluster without "=", of
\* flags followed by one value-kind option, and the next token is not an
\* option candidate.
FlagsThenValue(k) ==
  LET c == Cluster(args[k])
  IN /\ role[k] = "short"
     /\ k < Len(args)
     /\ Len(c) >= 2
     /\ \A j \in 1..Len(c) : c[j] # "="
     /\ \A j \in 1..(Len(c) - 1) : getOptionConfig(<<c[j]>>).kind = "flag"
     /\ getOptionConfig(<<c[Len(c)]>>).kind = "value"
     /\ ~OptionCandidate(args[k + 1])

\* What the cluster at position k gives the option of its j-th character.
ClusterValue(k, j) ==
  IF j < Len(Cluster(args[k])) THEN Bool(TRUE) ELSE Str(args[k + 1])

\* C13: a cluster of flags that ends in a value-kind option and is followed
\* by a token V that is no option candidate stores true for each flag and V
\* for the value option, in cluster order; V is consumed, is no positional
\* argument, and the scan resumes after V.
C13_ClusterFlagsThenValue ==
  \A k \in Positions :
    FlagsThenValue(k) =>
      LET c == Cluster(args[k])
      IN /\ Len(CallsAt(k)) = Len(c)
         /\ \A j \in 1..Len(c) :
              LET name == getOptionConfig(<<c[j]>>).name
              IN /\ CallsAt(k)[j].option = name
                 /\ CallsAt(k)[j].value = ClusterValue(k, j)
                 /\ CallsAt(k)[j].from = (IF j < Len(c) THEN 0 ELSE k + 1)
                 /\ Len(CallsFor(name)) = 1 =>
                      /\ hasOwn(result, name)
                      /\ ~result[name].arr
                      /\ result[name].items = <<ClusterValue(k, j)>>
         /\ role[k + 1] = "value"
         /\ i >= k + 2
         /\ Positional.items = TokensWithRole({"positional", "rest"}, Len(args))

\* -vfo x x: both flags true, the value option holds the first x, the
\* second x is the only positional argument.
C13_Witness ==
  /\ Returned
  /\ args = << <<"-", "v", "f", "o">>, <<"x">>, <<"x">> >>
  /\ result[<<"v", "b">>] = Scalar(Bool(TRUE))
  /\ result[<<"f", "o">>] = Scalar(Bool(TRUE))
  /\ result[<<"o", "u", "t">>] = Scalar(Str(<<"x">>))
  /\ Positional = Array(<<Str(<<"x">>)>>)

RawCluster(tok) == parseEqualsFormat(Cluster(tok)).rawOption

\* The place, among the stores of its token, of the store made for the j-th
\* character of a cluster that is processed as far as j.
CallIndex(cluster, j) ==
  Cardinality({m \in 1..j : getOptionConfig(<<cluster[m]>>).kind # "undefined"})

\* C16: in a short cluster every character but the last that resolves to a
\* flag stores true for that flag, whatever inline value the token carries.
C16_NonLastFlagsStoreTrue ==
  \A k \in Positions :
    role[k] = "short" =>
      LET c == RawCluster(args[k])
      IN \A j \in 1..(Len(c) - 1) :
           (ClusterReaches(c, j) /\ getOptionConfig(<<c[j]>>).kind = "flag") =>
             /\ CallIndex(c, j) <= Len(CallsAt(k))
             /\ CallsAt(k)[CallIndex(c, j)].option = getOptionConfig(<<c[j]>>).name
             /\ CallsAt(k)[CallIndex(c, j)].value = Bool(TRUE)

\* The characters of s without the one at position j.
RemoveAt(s, j) == SubSeq(s, 1, j - 1) \o SubSeq(s, j + 1, Len(s))

\* The positions before the last of the cluster whose character is looked
\* up and resolves to no registered option.
SkippedCharacters(cluster) ==
  {j \in 1..(Len(cluster) - 1) :
     /\ ClusterReaches(cluster, j)
     /\ getOptionConfig(<<cluster[j]>>).kind = "undefined"}

\* C17: a cluster character before the last that resolves to no option is
\* skipped: no error is raised, nothing is stored for it, and the scan of
\* the token stores, consumes and resumes as it does for the token without
\* that character.
C17_UnknownClusterMemberSkipped ==
  [][(pc = "scan" /\ i <= Len(args) /\ role'[i] = "short") =>
       \A j \in SkippedCharacters(RawCluster(args[i])) :
         LET absent == parseShortOption([result |-> result, calls |-> calls, i |-> i],
                                        RemoveAt(Cluster(args[i]), j), args)
         IN /\ thrown' = NoError
            /\ pc' = "scan"
            /\ result' = absent.result
            /\ calls' = absent.calls
            /\ i' = absent.i + 1
            /\ Len(calls') - Len(calls) =
                 Cardinality({m \in 1..Len(RawCluster(args[i])) :
                    /\ ClusterReaches(RawCluster(args[i]), m)
                    /\ getOptionConfig(<<RawCluster(args[i])[m]>>).kind # "undefined"})]_vars

\* -vzo x: the flag before the unknown z is true and the value option after
\* it took the next token.
C17_Witness ==
  /\ Returned
  /\ args = << <<"-", "v", "z", "o">>, <<"x">> >>
  /\ Len(calls) = 2
  /\ result[<<"v", "b">>] = Scalar(Bool(TRUE))
  /\ result[<<"o", "u", "t">>] = Scalar(Str(<<"x">>))
  /\ Positional = Array(<<>>)

\* The positions before the last of the cluster whose character is looked
\* up and resolves to a value-kind option: at most one, the first.
AttachedValueOption(cluster) ==
  {j \in 1..(Len(cluster) - 1) :
     /\ ClusterReaches(cluster, j)
     /\ getOptionConfig(<<cluster[j]>>).kind = "value"}

\* C18: a value-kind option found in a cluster before its last character
\* takes the rest of the cluster, up to the first "=", as its value; this
\* is the last store of the token, no inline value is used and the next
\* token is not consumed.
C18_AttachedValueEndsCluster ==
  \A k \in Positions :
    role[k] = "short" =>
      LET c == RawCluster(args[k])
      IN \A j \in AttachedValueOption(c) :
           /\ Len(CallsAt(k)) = CallIndex(c, j)
           /\ CallsAt(k)[CallIndex(c, j)] =
                [option |-> getOptionConfig(<<c[j]>>).name,
                 value |-> Str(SubSeq(c, j + 1, Len(c))),
                 at |-> k,
                 from |-> 0]
           /\ k < Len(args) => role[k + 1] # "value"

\* -ovf=x x: the value option holds vf, neither v nor f was set as a flag,
\* the inline x is dropped and the next token is positional.
C18_Witness ==
  /\ pc = "transforms"
  /\ args = << <<"-", "o", "v", "f", "=", "x">>, <<"x">> >>
  /\ calls = << [option |-> <<"o", "u", "t">>, value |-> Str(<<"v", "f">>),
                 at |-> 1, from |-> 0] >>
  /\ result[<<"o", "u", "t">>] = Scalar(Str(<<"v", "f">>))
  /\ ~hasOwn(result, <<"v", "b">>)
  /\ Positional = Array(<<Str(<<"x">>)>>)

\* The text of a long token after its two hyphens, and its parts around
\* the first "=".
LongBody(tok) == SubSeq(tok, 3, Len(tok))

HasEquals(s) == \E k \in 1..Len(s) : s[k] = "="

FirstEquals(s) ==
  CHOOSE k \in 1..Len(s) : s[k] = "=" /\ \A m \in 1..(k - 1) : s[m] # "="

BeforeEquals(s) == IF HasEquals(s) THEN SubSeq(s, 1, FirstEquals(s) - 1) ELSE s

AfterEquals(s) == SubSeq(s, FirstEquals(s) + 1, Len(s))

\* The long token names its option through the negation prefix.
Negated(tok) ==
  LET rawName == BeforeEquals(LongBody(tok))
  IN Len(rawName) >= 3 /\ SubSeq(rawName, 1, 3) = <<"n", "o", "-">>

\* The option a long token resolves to, else Undefined: for a negation the
\* flag named after the prefix, otherwise the option of the name.
LongTarget(tok) ==
  LET rawName == BeforeEquals(LongBody(tok))
  IN IF Negated(tok)
       THEN LET config == getOptionConfig(SubSeq(rawName, 4, Len(rawName)))
            IN IF config.kind = "flag" THEN config ELSE Undefined
     ELSE getOptionConfig(rawName)

\* The boolean a long token gives a flag: false for a negation and for the
\* inline value false, true otherwise.
FlagValue(tok) ==
  Bool(~(\/ Negated(tok)
         \/ /\ HasEquals(LongBody(tok))
            /\ AfterEquals(LongBody(tok)) = <<"f", "a", "l", "s", "e">>))

\* The token after position k, if any, was scanned as a token of its own.
NextScannedOnItsOwn(k) ==
  /\ k < Len(args) => role[k + 1] # "value"
  /\ k + 1 < i => role[k + 1] \in {"positional", "long", "short", "skipped",
                                   "terminator"}

\* The token at position k made the one store s, which decides the value of
\* the option when no other token sets it.
OnlyStore(k, s) ==
  /\ CallsAt(k) = <<s>>
  /\ Len(CallsFor(s.option)) = 1 =>
       /\ hasOwn(result, s.option)
       /\ ~result[s.option].arr
       /\ result[s.option].items = <<s.value>>

\* C19: a long token that resolves to a flag stores false when it is a
\* negation or carries the inline value false, and true otherwise; the
\* token after it is scanned as a token of its own.
C19_LongFlagBoolean ==
  \A k \in Positions :
    (role[k] = "long" /\ LongTarget(args[k]).kind = "flag") =>
      /\ OnlyStore(k, [option |-> LongTarget(args[k]).name,
                       value |-> FlagValue(args[k]),
                       at |-> k,
                       from |-> 0])
      /\ NextScannedOnItsOwn(k)

\* --vb=true x --no-vb=true: true, then false for the negation in spite of
\* its inline value; the word between them is positional.
C19_Witness ==
  /\ Returned
  /\ args = << <<"-", "-", "v", "b", "=", "t", "r", "u", "e">>, <<"x">>,
               <<"-", "-", "n", "o", "-", "v", "b", "=", "t", "r", "u", "e">> >>
  /\ ValuesFor(<<"v", "b">>) = <<Bool(TRUE), Bool(FALSE)>>
  /\ result[<<"v", "b">>] = Scalar(Bool(FALSE))
  /\ Positional = Array(<<Str(<<"x">>)>>)

\* C20: a long token that resolves to a value-kind option stores the text
\* after its first "=" when it has one, and does not consume the next
\* token; without "=", a next token that is no option candidate is stored
\* as the value and skipped by the scan.
C20_LongValueOption ==
  \A k \in Positions :
    (role[k] = "long" /\ LongTarget(args[k]).kind = "value") =>
      IF HasEquals(LongBody(args[k]))
        THEN /\ OnlyStore(k, [option |-> LongTarget(args[k]).name,
                              value |-> Str(AfterEquals(LongBody(args[k]))),
                              at |-> k,
                              from |-> 0])
             /\ NextScannedOnItsOwn(k)
      ELSE (k < Len(args) /\ ~OptionCandidate(args[k + 1])) =>
             /\ OnlyStore(k, [option |-> LongTarget(args[k]).name,
                              value |-> Str(args[k + 1]),
                              at |-> k,
                              from |-> k + 1])
             /\ role[k + 1] = "value"
             /\ i >= k + 2

\* --out=a=b --out -: the inline value keeps its second "=", then the bare
\* hyphen is taken as the value of the second occurrence.
C20_Witness ==
  /\ Returned
  /\ args = << <<"-", "-", "o", "u", "t", "=", "a", "=", "b">>,
               <<"-", "-", "o", "u", "t">>, <<"-">> >>
  /\ ValuesFor(<<"o", "u", "t">>) = <<Str(<<"a", "=", "b">>), Str(<<"-">>)>>
  /\ result[<<"o", "u", "t">>] = Scalar(Str(<<"-">>))
  /\ Positional = Array(<<>>)

\* C21: the transform pass changes the value under a key only by the
\* transform of the option whose canonical name is that key: it leaves the
\* value as it is when that option declares none, and never applies the
\* transform of another option.
C21_OnlyOwnTransform ==
  [][pc = "transforms" /\ pc' = "done" =>
       \A key \in DOMAIN result :
         IF key \in DOMAIN configMap /\ configMap[key].transform # "undefined"
           THEN result'[key] \in
                  {result[key], Transformed(configMap[key].transform, result[key])}
         ELSE result'[key] = result[key]]_vars

\* The length of the run of hyphens a token begins with.
LeadingHyphens(tok) ==
  Cardinality({k \in 1..Len(tok) : \A m \in 1..k : tok[m] = "-"})

\* C22: the scan of an option candidate that begins with neither one nor
\* two hyphens changes nothing but the position: no positional argument, no
\* option, no consumed token, no error, and the next token is scanned next.
C22_OtherHyphenRunsIgnored ==
  [][(/\ pc = "scan"
      /\ i <= Len(args)
      /\ OptionCandidate(args[i])
      /\ LeadingHyphens(args[i]) \notin {1, 2}) =>
       /\ result' = result
       /\ calls' = calls
       /\ thrown' = NoError
       /\ pc' = "scan"
       /\ i' = i + 1
       /\ role' = [role EXCEPT ![i] = "skipped"]]_vars

\* ---out x ---: the value option keeps its default, the word after the
\* first token is positional, nothing was stored.
C22_Witness ==
  /\ Returned
  /\ args = << <<"-", "-", "-", "o", "u", "t">>, <<"x">>, <<"-", "-", "-">> >>
  /\ role = <<"skipped", "positional", "skipped">>
  /\ calls = <<>>
  /\ result[<<"o", "u", "t">>] = configMap[<<"o", "u", "t">>].default
  /\ Positional = Array(<<Str(<<"x">>)>>)

\* C23: in every state of a parse, also of a configuration that declares an
\* option named _, the _ entry is a sequence of exactly the tokens classified
\* as positional so far, and no push on it has failed.
C23_PositionalEntryHoldsPositionals ==
  /\ Positional.arr
  /\ Positional.items = TokensWithRole({"positional", "rest"}, Len(args))
  /\ thrown = NoError

====
